---- MODULE Spec2Model ----
(***************************************************************************)
(* Model of server.js: the coin wallet, the Razorpay payment verification, *)
(* the withdrawal workflow and the manual-payment workflow, each route     *)
(* handler as one atomic action over the in-memory store.                  *)
(*                                                                         *)
(* JavaScript values are modelled as tagged records.  A JS string is the   *)
(* sequence of its characters, a JS number is either NaN or a multiple of  *)
(* 1/Scale (all such values are exact IEEE-754 doubles in the ranges used).*)
(***************************************************************************)
EXTENDS Integers, Sequences, FiniteSets, TLC

\* ------------------------------------------------------------------------
\* Bounds of the model
\* ------------------------------------------------------------------------
MaxHistory == 2     \* withdrawal records per player
MaxClaims == 2      \* manual payment claims in the global list
MaxBalance == 2000  \* |balance| in coins
MaxInflight == 3    \* requests received in a run of the in-flight model
MaxTime == 2        \* the clock, in milliseconds since the start

\* ------------------------------------------------------------------------
\* Program constants
\* ------------------------------------------------------------------------
StartingCoins == 1000
MinWithdrawal == 1000
CoinsPerRupee == 100

\* ------------------------------------------------------------------------
\* JavaScript values
\* ------------------------------------------------------------------------
Scale == 2 ^ 3      \* numbers are counted in eighths

Undef == [t |-> "undefined"]
Str(s) == [t |-> "string", s |-> s]
Num(e) == [t |-> "number", nan |-> FALSE, v |-> e]
NaN == [t |-> "number", nan |-> TRUE, v |-> 0]
Coins(n) == Num(n * Scale)

IsNumber(x) == x.t = "number"
IsString(x) == x.t = "string"
IsInteger(x) == IsNumber(x) /\ ~x.nan /\ x.v % Scale = 0
\* the integer a JS number denotes (only for IsInteger values)
Int2(x) == x.v \div Scale

\* ToBoolean: undefined, "", 0 and NaN are falsy
Truthy(x) ==
  CASE x.t = "undefined" -> FALSE
    [] x.t = "string" -> x.s # <<>>
    [] x.t = "number" -> ~x.nan /\ x.v # 0

\* a || b
Or(a, b) == IF Truthy(a) THEN a ELSE b

\* a + b, a - b on numbers
Plus(a, b) == IF a.nan \/ b.nan THEN NaN ELSE Num(a.v + b.v)
Minus(a, b) == IF a.nan \/ b.nan THEN NaN ELSE Num(a.v - b.v)
\* a * n for an integer literal n
Times(a, n) == IF a.nan THEN NaN ELSE Num(a.v * n)
\* a < b, a > b on numbers: false when either is NaN
Less(a, b) == ~a.nan /\ ~b.nan /\ a.v < b.v
Greater(a, b) == Less(b, a)

\* Math.round: the nearest integer, halves towards +Infinity
MathRound(a) ==
  IF a.nan THEN NaN ELSE Num(((a.v + (Scale \div 2)) \div Scale) * Scale)

DigitChars == <<"0", "1", "2", "3", "4", "5", "6", "7", "8", "9">>
IsDigit(c) == \E d \in 1..10 : DigitChars[d] = c
DigitVal(c) == (CHOOSE d \in 1..10 : DigitChars[d] = c) - 1

RECURSIVE SkipSpaces(_, _)
SkipSpaces(s, i) ==
  IF i <= Len(s) /\ s[i] = " " THEN SkipSpaces(s, i + 1) ELSE i

\* the index after the run of digits of s that starts at i
RECURSIVE DigitsEnd(_, _)
DigitsEnd(s, i) ==
  IF i <= Len(s) /\ IsDigit(s[i]) THEN DigitsEnd(s, i + 1) ELSE i

\* the value of the digits s[i..j-1]
RECURSIVE DigitsValue(_, _, _)
DigitsValue(s, i, j) ==
  IF j <= i THEN 0 ELSE 10 * DigitsValue(s, i, j - 1) + DigitVal(s[j - 1])

\* the decimal digits of a natural number
RECURSIVE Digits(_)
Digits(n) ==
  IF n < 10 THEN <<DigitChars[n + 1]>>
  ELSE Digits(n \div 10) \o <<DigitChars[(n % 10) + 1]>>

\* parseInt(s, 10) of a string: leading blanks, a sign, then the longest run
\* of digits; NaN when there is no digit
ParseIntChars(s) ==
  LET i == SkipSpaces(s, 1)
      signed == i <= Len(s) /\ s[i] \in {"-", "+"}
      j == IF signed THEN i + 1 ELSE i
      k == DigitsEnd(s, j)
  IN  IF k = j THEN NaN
      ELSE IF signed /\ s[i] = "-" THEN Coins(0 - DigitsValue(s, j, k))
      ELSE Coins(DigitsValue(s, j, k))

\* parseInt(x, 10): x is converted to a string first; for a number in the
\* ranges used that string is its decimal expansion, so the result is the
\* number truncated towards zero
ParseInt(x) ==
  CASE x.t = "undefined" -> NaN
    [] x.t = "string" -> ParseIntChars(x.s)
    [] x.t = "number" ->
         IF x.nan THEN NaN
         ELSE IF x.v >= 0 THEN Coins(x.v \div Scale)
         ELSE Coins(0 - ((0 - x.v) \div Scale))

RECURSIVE Pow10(_)
Pow10(n) == IF n = 0 THEN 1 ELSE 10 * Pow10(n - 1)

\* Number(s) of a string: blanks are trimmed, "" is 0, a signed decimal
\* literal is its value, anything else is NaN (exponents, hex and Infinity
\* are not among the inputs of the model)
StringToNumber(s) ==
  LET i == SkipSpaces(s, 1)
      signed == i <= Len(s) /\ s[i] \in {"-", "+"}
      j == IF signed THEN i + 1 ELSE i
      k == DigitsEnd(s, j)
      dot == k <= Len(s) /\ s[k] = "."
      f == IF dot THEN k + 1 ELSE k
      m == IF dot THEN DigitsEnd(s, f) ELSE k
      e == SkipSpaces(s, m)
      mag == DigitsValue(s, j, k) * Scale
             + (DigitsValue(s, f, m) * Scale) \div Pow10(m - f)
  IN  IF i > Len(s) THEN Num(0)
      ELSE IF e <= Len(s) \/ (k = j /\ m = f) THEN NaN
      ELSE IF signed /\ s[i] = "-" THEN Num(0 - mag)
      ELSE Num(mag)

\* Number(x)
ToNumber(x) ==
  CASE x.t = "undefined" -> NaN
    [] x.t = "string" -> StringToNumber(x.s)
    [] x.t = "number" -> x

\* (c / 100).toFixed(2) for a non-negative integer number c
ToFixed2Hundredth(c) ==
  LET n == Int2(c)
  IN  Str(Digits(n \div 100)
          \o <<".", DigitChars[((n % 100) \div 10) + 1], DigitChars[(n % 10) + 1]>>)

\* String.prototype.includes for a one-character needle
Includes(s, c) == \E i \in 1..Len(s) : s[i] = c

\* ToString of a string or of an integer number
JsToString(x) ==
  CASE x.t = "string" -> x.s
    [] x.t = "number" ->
         IF x.v < 0 THEN <<"-">> \o Digits(0 - Int2(x)) ELSE Digits(Int2(x))

\* arr[index] exists: index is a number that is an integer in 0..length-1,
\* or a string that is the canonical decimal form of such an integer
HasIndex(arr, index) ==
  CASE index.t = "undefined" -> FALSE
    [] index.t = "number" ->
         IsInteger(index) /\ Int2(index) >= 0 /\ Int2(index) < Len(arr)
    [] index.t = "string" ->
         /\ index.s # <<>>
         /\ DigitsEnd(index.s, 1) = Len(index.s) + 1
         /\ (Len(index.s) = 1 \/ index.s[1] # "0")
         /\ DigitsValue(index.s, 1, Len(index.s) + 1) < Len(arr)

\* the position in the TLA+ sequence of the element arr[index] (HasIndex)
Pos(index) ==
  IF index.t = "number" THEN Int2(index) + 1
  ELSE DigitsValue(index.s, 1, Len(index.s) + 1) + 1

\* ------------------------------------------------------------------------
\* Configuration and string literals of the program
\* ------------------------------------------------------------------------
ADMIN_PASSWORD == <<"a", "d", "m", "i", "n", "1", "2", "3">>
RAZORPAY_KEY_SECRET == <<"k", "e", "y">>

Guest == <<"G", "u", "e", "s", "t">>
Pending == <<"P", "e", "n", "d", "i", "n", "g">>
Approved == <<"A", "p", "p", "r", "o", "v", "e", "d">>
Rejected == <<"R", "e", "j", "e", "c", "t", "e", "d">>
Statuses == {Str(Pending), Str(Approved), Str(Rejected)}

\* crypto.createHmac("sha256", key).update(msg).digest("hex"): the digest is
\* modelled as an ideal keyed function, a string that determines key and msg
HmacSha256Hex(key, msg) ==
  <<"h", "m", "a", "c", "(">> \o key \o <<",">> \o msg \o <<")">>

\* ------------------------------------------------------------------------
\* State
\* ------------------------------------------------------------------------
VARIABLES
  players,          \* the players object: key -> [balance, withdrawHistory]
  keys,             \* the keys of players in insertion order (Object.entries)
  manualPayments,   \* the manualPayments array
  now,              \* the clock read by new Date()
  resp,             \* the response to the last request handled
  inflight          \* the requests received: body, position, outcome

vars == <<players, keys, manualPayments, now, resp, inflight>>

Reply(op, status, body) == [op |-> op, status |-> status, body |-> body]
Fail(op, status, message) ==
  Reply(op, status, [success |-> FALSE, message |-> message])

Init ==
  /\ players = <<>>
  /\ keys = <<>>
  /\ manualPayments = <<>>
  /\ now = 0
  /\ resp = Reply("", 0, [success |-> FALSE, message |-> ""])
  /\ inflight = <<>>

\* ------------------------------------------------------------------------
\* getPlayer
\* ------------------------------------------------------------------------
\* the key getPlayer looks up: a falsy identifier becomes "Guest"
PlayerKey(player) == IF ~Truthy(player) THEN Guest ELSE JsToString(player)

NewPlayer == [balance |-> Coins(StartingCoins), withdrawHistory |-> <<>>]

\* players is a plain object ({}): for a name it does not hold itself,
\* players[name] is what Object.prototype holds under that name, a function
\* for "constructor" and the others, which is truthy
Constructor == <<"c", "o", "n", "s", "t", "r", "u", "c", "t", "o", "r">>
ToStringName == <<"t", "o", "S", "t", "r", "i", "n", "g">>
ObjectPrototypeNames == {Constructor, ToStringName}

\* players[key] is truthy: getPlayer creates nothing
Found(key) == key \in DOMAIN players \/ key \in ObjectPrototypeNames

\* the players object after getPlayer(player)
getPlayer(player) ==
  IF Found(PlayerKey(player)) THEN players
  ELSE [k \in (DOMAIN players) \cup {PlayerKey(player)} |->
          IF k \in DOMAIN players THEN players[k] ELSE NewPlayer]

\* its keys after getPlayer(player)
getPlayerKeys(player) ==
  IF Found(PlayerKey(player)) THEN keys
  ELSE Append(keys, PlayerKey(player))

\* the object getPlayer(player) returns: the player, or the inherited
\* function, which has neither balance nor withdrawHistory. The routes that
\* assign to what getPlayer returns are modelled for the players only.
Returned(player) ==
  IF PlayerKey(player) \in DOMAIN getPlayer(player)
  THEN getPlayer(player)[PlayerKey(player)]
  ELSE [balance |-> Undef, withdrawHistory |-> Undef]

\* ------------------------------------------------------------------------
\* isAdmin middleware
\* ------------------------------------------------------------------------
\* a gate that lets every request through
isAdminOpen(op, token, next) == next

isAdmin(op, token, next) ==
  IF ~Truthy(token) \/ token # Str(ADMIN_PASSWORD)
  THEN /\ resp' = Fail(op, 403, "Not authorized")
       /\ UNCHANGED <<players, keys, manualPayments, now>>
  ELSE next

\* ------------------------------------------------------------------------
\* User routes
\* ------------------------------------------------------------------------
WalletGet(player) ==
  LET op == "GET /api/wallet"
      k == PlayerKey(player)
      ps == getPlayer(player)
  IN  /\ players' = ps
      /\ keys' = getPlayerKeys(player)
      /\ resp' = Reply(op, 200,
                       [success |-> TRUE, balance |-> Returned(player).balance])
      /\ UNCHANGED <<manualPayments, now>>

WalletSetBalance(player, balance) ==
  LET op == "POST /api/wallet/set-balance"
      k == PlayerKey(player)
      ps == getPlayer(player)
  IN  IF ~IsNumber(balance) \/ Less(balance, Num(0))
      THEN /\ resp' = Fail(op, 400, "Invalid balance")
           /\ UNCHANGED <<players, keys, manualPayments, now>>
      ELSE /\ players' = [ps EXCEPT ![k].balance = MathRound(balance)]
           /\ keys' = getPlayerKeys(player)
           /\ resp' = Reply(op, 200,
                            [success |-> TRUE, balance |-> MathRound(balance)])
           /\ UNCHANGED <<manualPayments, now>>

\* the comparison left out
SignatureMismatchNever(expectedSignature, signature) == FALSE

\* expectedSignature !== razorpay_signature
SignatureMismatch(expectedSignature, signature) ==
  expectedSignature # signature

\* = in place of +=
CreditAssigned(balance, coinsNum) == coinsNum

\* p.balance += coinsNum
Credit(balance, coinsNum) == Plus(balance, coinsNum)

PaymentVerify(player, coins, order_id, payment_id, signature) ==
  LET op == "POST /api/payment/verify"
      k == PlayerKey(player)
      ps == getPlayer(player)
  IN  IF ~Truthy(order_id) \/ ~Truthy(payment_id) \/ ~Truthy(signature)
      THEN /\ resp' = Fail(op, 400, "Missing payment details")
           /\ UNCHANGED <<players, keys, manualPayments, now>>
      ELSE
        LET signString == JsToString(order_id) \o <<"|">> \o JsToString(payment_id)
            expectedSignature ==
              Str(HmacSha256Hex(RAZORPAY_KEY_SECRET, signString))
            coinsNum == Or(ParseInt(coins), Num(0))
            newBalance == Credit(ps[k].balance, coinsNum)
        IN  IF SignatureMismatch(expectedSignature, signature)
            THEN /\ resp' = Fail(op, 400, "Invalid payment signature")
                 /\ UNCHANGED <<players, keys, manualPayments, now>>
            ELSE /\ players' = [ps EXCEPT ![k].balance = newBalance]
                 /\ keys' = getPlayerKeys(player)
                 /\ resp' = Reply(op, 200,
                                  [success |-> TRUE, newBalance |-> newBalance])
                 /\ UNCHANGED <<manualPayments, now>>

\* the minimum check with <= in place of <
BelowMinimumInclusive(coinsNum) ==
  ~Truthy(coinsNum) \/ ~Greater(coinsNum, Coins(MinWithdrawal))

\* !coinsNum || coinsNum < 1000
BelowMinimum(coinsNum) ==
  ~Truthy(coinsNum) \/ Less(coinsNum, Coins(MinWithdrawal))

\* the balance check left out
InsufficientBalanceNever(coinsNum, balance) == FALSE

\* coinsNum > p.balance
InsufficientBalance(coinsNum, balance) == Greater(coinsNum, balance)

\* the debit left out
DebitNothing(balance, coinsNum) == balance

\* p.balance -= coinsNum
Debit(balance, coinsNum) == Minus(balance, coinsNum)

\* unshift in place of push
Unshift(array, element) == <<element>> \o array

\* array.push(element)
Push(array, element) == Append(array, element)

WithdrawRequest(player, upiId, coins) ==
  LET op == "POST /api/withdraw-request"
      k == PlayerKey(player)
      ps == getPlayer(player)
      coinsNum == ParseInt(coins)
      failed(status, message) ==
        /\ players' = ps
        /\ keys' = getPlayerKeys(player)
        /\ resp' = Fail(op, status, message)
        /\ UNCHANGED <<manualPayments, now>>
  IN  IF ~Truthy(upiId) THEN failed(400, "Invalid UPI ID")
      \* upiId.includes is not a function for a number: the TypeError is caught
      ELSE IF ~IsString(upiId) THEN failed(500, "Server error in withdraw")
      ELSE IF ~Includes(upiId.s, "@") THEN failed(400, "Invalid UPI ID")
      ELSE IF BelowMinimum(coinsNum)
      THEN failed(400, "Minimum withdrawal 1000 coins")
      ELSE IF InsufficientBalance(coinsNum, ps[k].balance)
      THEN failed(400, "Insufficient balance")
      ELSE
        LET entry == [coins |-> coinsNum,
                      amountInRupees |-> ToFixed2Hundredth(coinsNum),
                      upiId |-> upiId,
                      status |-> Str(Pending),
                      txnId |-> Str(<<>>),
                      note |-> Str(<<>>),
                      time |-> now]
            p == [balance |-> Debit(ps[k].balance, coinsNum),
                  withdrawHistory |-> Push(ps[k].withdrawHistory, entry)]
        IN  /\ players' = [ps EXCEPT ![k] = p]
            /\ keys' = getPlayerKeys(player)
            /\ resp' = Reply(op, 200,
                             [success |-> TRUE, newBalance |-> p.balance,
                              history |-> p.withdrawHistory])
            /\ UNCHANGED <<manualPayments, now>>

WithdrawHistory(player) ==
  LET op == "GET /api/withdraw-history"
      k == PlayerKey(player)
      ps == getPlayer(player)
  IN  /\ players' = ps
      /\ keys' = getPlayerKeys(player)
      /\ resp' = Reply(op, 200,
                       [success |-> TRUE,
                        history |-> Returned(player).withdrawHistory])
      /\ UNCHANGED <<manualPayments, now>>

\* ------------------------------------------------------------------------
\* Admin routes
\* ------------------------------------------------------------------------
\* the entries pushed for one player, in index order
RECURSIVE PlayerWithdrawals(_, _, _)
PlayerWithdrawals(playerName, history, index) ==
  IF index > Len(history) THEN <<>>
  ELSE <<[player |-> playerName,
          index |-> index - 1,
          coins |-> history[index].coins,
          amountInRupees |-> history[index].amountInRupees,
          upiId |-> history[index].upiId,
          status |-> history[index].status,
          txnId |-> Or(history[index].txnId, Str(<<>>)),
          note |-> Or(history[index].note, Str(<<>>)),
          time |-> history[index].time]>>
       \o PlayerWithdrawals(playerName, history, index + 1)

\* the array all before the sort: Object.entries(players) in insertion order
RECURSIVE AllWithdrawals(_)
AllWithdrawals(ks) ==
  IF ks = <<>> THEN <<>>
  ELSE PlayerWithdrawals(Head(ks), players[Head(ks)].withdrawHistory, 1)
       \o AllWithdrawals(Tail(ks))

\* all.sort((a, b) => new Date(b.time) - new Date(a.time)): a stable sort,
\* latest first; w goes behind every entry that is not older than it
RECURSIVE InsertLatestFirst(_, _)
InsertLatestFirst(sorted, w) ==
  IF sorted = <<>> THEN <<w>>
  ELSE IF Head(sorted).time >= w.time
       THEN <<Head(sorted)>> \o InsertLatestFirst(Tail(sorted), w)
       ELSE <<w>> \o sorted

\* the sort left out
Unsorted(all) == all

RECURSIVE SortLatestFirst(_)
SortLatestFirst(all) ==
  IF all = <<>> THEN <<>>
  ELSE InsertLatestFirst(SortLatestFirst(SubSeq(all, 1, Len(all) - 1)),
                         all[Len(all)])

AdminWithdrawals(token) ==
  LET op == "GET /api/admin/withdrawals"
  IN  isAdmin(op, token,
        /\ resp' = Reply(op, 200,
                         [success |-> TRUE,
                          withdrawals |-> SortLatestFirst(AllWithdrawals(keys))])
        /\ UNCHANGED <<players, keys, manualPayments, now>>)

\* the status check left out
ValidStatusAny(status) == TRUE

\* ["Pending", "Approved", "Rejected"].includes(status)
ValidStatus(status) == status \in Statuses

\* value || "": the stored value is not kept
SuppliedOrEmpty(value, stored) == Or(value, Str(<<>>))

\* value || stored || ""
SuppliedOrStored(value, stored) == Or(Or(value, stored), Str(<<>>))

\* a rejection that gives the coins of the record back
BalanceAfterUpdateRefunded(balance, coins, status) ==
  IF status = Str(Rejected) THEN Plus(balance, coins) ELSE balance

\* the update assigns status, txnId and note of the record and nothing else
\* of the player: p.balance is what it was
BalanceAfterUpdate(balance, coins, status) == balance

AdminWithdrawalsUpdate(token, player, index, status, txnId, note) ==
  LET op == "POST /api/admin/withdrawals/update"
      k == PlayerKey(player)
      ps == getPlayer(player)
      history == ps[k].withdrawHistory
      w == history[Pos(index)]
      updated == [w EXCEPT !.status = status,
                           !.txnId = SuppliedOrStored(txnId, w.txnId),
                           !.note = SuppliedOrStored(note, w.note)]
  IN  isAdmin(op, token,
        IF ~Truthy(player) \/ ~IsNumber(index)
        THEN /\ resp' = Fail(op, 400, "Player and index required")
             /\ UNCHANGED <<players, keys, manualPayments, now>>
        ELSE IF ~ValidStatus(status)
        THEN /\ resp' = Fail(op, 400, "Invalid status")
             /\ UNCHANGED <<players, keys, manualPayments, now>>
        ELSE IF k \notin DOMAIN ps
        THEN \* p is an inherited function: p.withdrawHistory is undefined,
             \* p.withdrawHistory[index] throws a TypeError, caught at 244
             /\ resp' = Fail(op, 500, "Server error updating withdrawal")
             /\ UNCHANGED <<players, keys, manualPayments, now>>
        ELSE IF ~HasIndex(history, index)
        THEN /\ players' = ps
             /\ keys' = getPlayerKeys(player)
             /\ resp' = Fail(op, 404, "Withdraw not found")
             /\ UNCHANGED <<manualPayments, now>>
        ELSE /\ players' =
                  [ps EXCEPT ![k] =
                     [balance |->
                        BalanceAfterUpdate(ps[k].balance, w.coins, status),
                      withdrawHistory |->
                        [history EXCEPT ![Pos(index)] = updated]]]
             /\ keys' = getPlayerKeys(player)
             /\ resp' = Reply(op, 200,
                              [success |-> TRUE,
                               history |-> [history EXCEPT ![Pos(index)] = updated]])
             /\ UNCHANGED <<manualPayments, now>>)

\* ------------------------------------------------------------------------
\* Manual add money system
\* ------------------------------------------------------------------------
ManualAdd(player, amount, txnId) ==
  LET op == "POST /api/manual-add"
  IN  IF ~Truthy(player) \/ ~Truthy(amount) \/ ~Truthy(txnId)
      THEN /\ resp' = Fail(op, 400, "All fields required")
           /\ UNCHANGED <<players, keys, manualPayments, now>>
      ELSE /\ manualPayments' =
                Push(manualPayments,
                     [player |-> player,
                      amount |-> ToNumber(amount),
                      txnId |-> txnId,
                      status |-> Str(Pending),
                      time |-> now])
           /\ resp' = Reply(op, 200,
                            [success |-> TRUE,
                             message |-> "Manual payment submitted"])
           /\ UNCHANGED <<players, keys, now>>

AdminManualPayments(token) ==
  LET op == "GET /api/admin/manual-payments"
  IN  isAdmin(op, token,
        /\ resp' = Reply(op, 200, [success |-> TRUE, data |-> manualPayments])
        /\ UNCHANGED <<players, keys, manualPayments, now>>)

\* the check without the status
NotPendingClaimAnyStatus(index) == ~HasIndex(manualPayments, index)

\* !item || item.status !== "Pending"
NotPendingClaim(index) ==
  \/ ~HasIndex(manualPayments, index)
  \/ manualPayments[Pos(index)].status # Str(Pending)

\* the conversion without the rounding
ClaimCoinsUnrounded(amount) == Times(amount, CoinsPerRupee)

\* Math.round(item.amount * 100)
ClaimCoins(amount) == MathRound(Times(amount, CoinsPerRupee))

AdminManualApprove(token, index) ==
  LET op == "POST /api/admin/manual-approve"
      item == manualPayments[Pos(index)]
      coins == ClaimCoins(item.amount)
      k == PlayerKey(item.player)
      ps == getPlayer(item.player)
      newBalance == Credit(ps[k].balance, coins)
  IN  isAdmin(op, token,
        IF NotPendingClaim(index)
        THEN /\ resp' = Fail(op, 400, "Invalid request")
             /\ UNCHANGED <<players, keys, manualPayments, now>>
        ELSE /\ players' = [ps EXCEPT ![k].balance = newBalance]
             /\ keys' = getPlayerKeys(item.player)
             /\ manualPayments' =
                  [manualPayments EXCEPT ![Pos(index)].status = Str(Approved)]
             /\ resp' = Reply(op, 200,
                              [success |-> TRUE, newBalance |-> newBalance])
             /\ UNCHANGED now)

\* new Date() never goes back; several requests may fall in one millisecond
Tick == /\ now' = now + 1
        /\ UNCHANGED <<players, keys, manualPayments, resp, inflight>>

\* ------------------------------------------------------------------------
\* Request values
\* ------------------------------------------------------------------------
Bob == <<"B", "o", "b">>
UpiOk == <<"a", "@", "b">>
UpiNoAt == <<"a", "b">>
S1000 == <<"1", "0", "0", "0">>
S999 == <<"9", "9", "9">>
S1500 == <<"1", "5", "0", "0">>
S500 == <<"5", "0", "0">>
SMinus2000 == <<"-", "2", "0", "0", "0">>
SAbc == <<"a", "b", "c">>
T1 == <<"T", "1">>
T2 == <<"T", "2">>
N1 == <<"N", "1">>
X1 == <<"X", "1">>
Order1 == <<"o">>
Order2 == <<"o", "|", "p">>
Payment1 == <<"p">>
Payment2 == <<"p", "|", "p">>
WrongKey == <<"k">>

\* the signature the gateway issues for an order and a payment
Signature(order, payment) ==
  Str(HmacSha256Hex(RAZORPAY_KEY_SECRET, order \o <<"|">> \o payment))

Tokens == {Undef, Str(ADMIN_PASSWORD), Str(WrongKey)}
AdminIndexes == {Coins(0), Coins(1)}

\* the bounds of the model
InBounds ==
  /\ \A k \in DOMAIN players :
       /\ Len(players[k].withdrawHistory) <= MaxHistory
       /\ \/ players[k].balance.nan
          \/ /\ players[k].balance.v <= MaxBalance * Scale
             /\ players[k].balance.v >= 0 - MaxBalance * Scale
  /\ Len(manualPayments) <= MaxClaims

\* the request is handled as it is received: the handler runs within the
\* bounds and no request is left in flight
Direct == InBounds' /\ UNCHANGED inflight

\* ------------------------------------------------------------------------
\* The whole server: Guest buys coins and withdraws them, Bob claims manual
\* payments, the administrator reviews both
\* ------------------------------------------------------------------------
Next ==
  \/ \E player \in {Undef, Str(Bob)} : WalletGet(player) /\ Direct
  \/ \E balance \in {Coins(2000), Coins(-1)} :
       WalletSetBalance(Undef, balance) /\ Direct
  \/ \E coins \in {Str(S1000), Str(SMinus2000)},
        signature \in {Signature(Order1, Payment1), Signature(Order1, Payment2)} :
       PaymentVerify(Undef, coins, Str(Order1), Str(Payment1), signature)
       /\ Direct
  \/ \E coins \in {Str(S1000), Str(S999)} :
       WithdrawRequest(Undef, Str(UpiOk), coins) /\ Direct
  \/ \E player \in {Undef, Str(Bob)} : WithdrawHistory(player) /\ Direct
  \/ \E token \in Tokens : AdminWithdrawals(token) /\ Direct
  \/ \E token \in Tokens, index \in AdminIndexes :
       AdminWithdrawalsUpdate(token, Str(Guest), index, Str(Approved),
                              Str(T1), Undef)
       /\ Direct
  \/ ManualAdd(Str(Bob), Coins(10), Str(X1)) /\ Direct
  \/ \E token \in Tokens : AdminManualPayments(token) /\ Direct
  \/ \E token \in Tokens, index \in AdminIndexes :
       AdminManualApprove(token, index) /\ Direct

Spec == Init /\ [][Next]_vars

\* ------------------------------------------------------------------------
\* The withdrawal workflow: Guest requests withdrawals with every kind of
\* destination and amount and refills the wallet, Bob withdraws beside Guest.
\* The server starts empty, or in the state it is in after
\*   POST /api/manual-add {player: "Guest", amount: "abc", txnId: "X1"}
\*   POST /api/admin/manual-approve {index: 0}
\* where Number("abc") has made Guest's balance NaN.
\* ------------------------------------------------------------------------
AfterNaNApproval ==
  /\ players = [k \in {Guest} |-> [balance |-> NaN, withdrawHistory |-> <<>>]]
  /\ keys = <<Guest>>
  /\ manualPayments = <<[player |-> Str(Guest), amount |-> NaN,
                         txnId |-> Str(X1), status |-> Str(Approved),
                         time |-> 0]>>
  /\ now = 0
  /\ resp = Reply("POST /api/admin/manual-approve", 200,
                  [success |-> TRUE, newBalance |-> NaN])
  /\ inflight = <<>>

InitWithdraw == Init \/ AfterNaNApproval

WithdrawPlayers == {Undef, Str(Bob)}
WithdrawUpis == {Undef, Str(UpiOk), Str(UpiNoAt), Coins(1)}
WithdrawCoins ==
  {Undef, Str(S1000), Str(S999), Str(S1500), Str(SAbc), Num(1000 * Scale + 4)}

NextWithdraw ==
  \/ \E upiId \in WithdrawUpis, coins \in WithdrawCoins :
       WithdrawRequest(Undef, upiId, coins) /\ Direct
  \/ WithdrawRequest(Str(Bob), Str(UpiOk), Str(S1000)) /\ Direct
  \/ WalletSetBalance(Undef, Coins(2000)) /\ Direct
  \/ \E player \in WithdrawPlayers : WithdrawHistory(player) /\ Direct

SpecWithdraw == InitWithdraw /\ [][NextWithdraw]_vars

\* ------------------------------------------------------------------------
\* The manual payment workflow: Guest submits claims with every kind of
\* amount, Bob claims 10 rupees, the administrator lists and approves
\* ------------------------------------------------------------------------
ManualAmounts ==
  {Undef, Coins(0), Coins(10), Str(<<"1", "0">>), Num(1), Coins(-10), Str(SAbc)}
ManualIndexes == {Undef, Coins(0), Coins(1), Num(4), Str(<<"0">>)}

NextManual ==
  \/ \E amount \in ManualAmounts, txnId \in {Undef, Str(X1)} :
       ManualAdd(Str(Guest), amount, txnId) /\ Direct
  \/ \E player \in {Undef, Str(Bob)} :
       ManualAdd(player, Coins(10), Str(X1)) /\ Direct
  \/ AdminManualPayments(Str(ADMIN_PASSWORD)) /\ Direct
  \/ \E index \in ManualIndexes :
       AdminManualApprove(Str(ADMIN_PASSWORD), index) /\ Direct
  \/ WalletGet(Str(Bob)) /\ Direct

SpecManual == Init /\ [][NextManual]_vars

\* ------------------------------------------------------------------------
\* Payment verification: Guest submits every combination of order id, payment
\* id and signature, Bob submits a valid proof
\* ------------------------------------------------------------------------
VerifyCoins == {Str(S1000), Str(SMinus2000), Num(500 * Scale + 4)}
VerifyOrders == {Undef, Str(Order1), Str(Order2)}
VerifyPayments == {Str(<<>>), Str(Payment1), Str(Payment2)}
VerifySignatures ==
  {Undef,
   Signature(Order1, Payment1), Signature(Order1, Payment2),
   Signature(Order2, Payment2),
   Str(HmacSha256Hex(WrongKey, Order1 \o <<"|">> \o Payment1))}

\* the bodies posted: <<player, coins, order id, payment id, signature>>
VerifyRequests ==
  {<<Undef, coins, order_id, payment_id, signature>> :
     coins \in VerifyCoins, order_id \in VerifyOrders,
     payment_id \in VerifyPayments, signature \in VerifySignatures}
  \cup {<<Str(Bob), Str(S1000), Str(Order1), Str(Payment1),
          Signature(Order1, Payment1)>>}

NextPayment ==
  \/ \E r \in VerifyRequests :
       PaymentVerify(r[1], r[2], r[3], r[4], r[5]) /\ Direct
  \/ \E player \in {Undef, Str(Bob)} : WalletGet(player) /\ Direct

SpecPayment == Init /\ [][NextPayment]_vars

\* ------------------------------------------------------------------------
\* Review of withdrawals, the status: Guest withdraws 1000 coins and refills,
\* Bob withdraws once, the administrator sets every status on Guest's records
\* ------------------------------------------------------------------------
Done == <<"D", "o", "n", "e">>
StatusUpdates ==
  {<<Str(Pending), Undef>>, <<Str(Approved), Str(T1)>>,
   <<Str(Rejected), Undef>>, <<Str(Done), Undef>>}

NextStatus ==
  \/ WithdrawRequest(Undef, Str(UpiOk), Str(S1000)) /\ Direct
  \/ WithdrawRequest(Str(Bob), Str(UpiOk), Str(S1000)) /\ Direct
  \/ WalletSetBalance(Undef, Coins(1000)) /\ Direct
  \/ WithdrawHistory(Undef) /\ Direct
  \/ \E index \in AdminIndexes, update \in StatusUpdates :
       AdminWithdrawalsUpdate(Str(ADMIN_PASSWORD), Str(Guest), index,
                              update[1], update[2], Undef)
       /\ Direct
  \/ AdminWithdrawalsUpdate(Str(ADMIN_PASSWORD), Str(Bob), Coins(0),
                            Str(Rejected), Undef, Undef)
     /\ Direct

SpecStatus == Init /\ [][NextStatus]_vars

\* ------------------------------------------------------------------------
\* Review of withdrawals, txnId and note: Guest withdraws and refills, Bob
\* withdraws once, the administrator approves Guest's records with every
\* kind of txnId and note and rejects Bob's
\* ------------------------------------------------------------------------
UpdateTxnIds == {Undef, Str(<<>>), Str(T1), Str(T2)}
UpdateNotes == {Undef, Str(<<>>), Str(N1)}

\* the bodies posted: <<player, index, status, txnId, note>>
UpdateRequests ==
  {<<Str(Guest), index, Str(Approved), txnId, note>> :
     index \in AdminIndexes, txnId \in UpdateTxnIds, note \in UpdateNotes}
  \cup {<<Str(Bob), Coins(0), Str(Rejected), Str(T1), Undef>>}

NextUpdate ==
  \/ WithdrawRequest(Undef, Str(UpiOk), Str(S1000)) /\ Direct
  \/ WithdrawRequest(Str(Bob), Str(UpiOk), Str(S1000)) /\ Direct
  \/ WalletSetBalance(Undef, Coins(1000)) /\ Direct
  \/ \E r \in UpdateRequests :
       AdminWithdrawalsUpdate(Str(ADMIN_PASSWORD), r[1], r[2], r[3], r[4], r[5])
       /\ Direct
  \/ AdminWithdrawals(Str(ADMIN_PASSWORD)) /\ Direct

SpecUpdate == Init /\ [][NextUpdate]_vars

\* ------------------------------------------------------------------------
\* Player resolution: the wallet and the history are read under every kind of
\* identifier; Guest (under its three identifiers) and Bob withdraw, refill
\* and buy, the administrator addresses Bob's first record
\* ------------------------------------------------------------------------
GuestIds == {Undef, Str(<<>>), Str(Guest)}
ResolveIds == GuestIds \cup {Str(Bob), Str(Constructor)}

NextResolve ==
  \/ \E player \in ResolveIds : WalletGet(player) /\ Direct
  \/ \E player \in ResolveIds : WithdrawHistory(player) /\ Direct
  \/ \E player \in GuestIds \cup {Str(Bob)} :
       WithdrawRequest(player, Str(UpiOk), Str(S1000)) /\ Direct
  \/ \E player \in {Undef, Str(Bob)} :
       WalletSetBalance(player, Coins(1000)) /\ Direct
  \/ PaymentVerify(Str(Bob), Str(S1000), Str(Order1), Str(Payment1),
                   Signature(Order1, Payment1))
     /\ Direct
  \/ AdminWithdrawalsUpdate(Str(ADMIN_PASSWORD), Str(Bob), Coins(0),
                            Str(Approved), Str(T1), Undef)
     /\ Direct

SpecResolve == Init /\ [][NextResolve]_vars

\* ------------------------------------------------------------------------
\* Replay: the gateway has issued one proof, for order "o" and payment "p";
\* it is posted again and again, for Guest and for Bob, with several amounts
\* ------------------------------------------------------------------------
\* the bodies posted: <<player, coins>>
ReplayRequests ==
  {<<Undef, Str(S500)>>, <<Undef, Str(SMinus2000)>>, <<Str(Bob), Str(S1000)>>}

NextReplay ==
  \/ \E r \in ReplayRequests :
       PaymentVerify(r[1], r[2], Str(Order1), Str(Payment1),
                     Signature(Order1, Payment1))
       /\ Direct
  \/ \E player \in {Undef, Str(Bob)} : WalletGet(player) /\ Direct

SpecReplay == Init /\ [][NextReplay]_vars

\* ------------------------------------------------------------------------
\* Requests in flight: the server receives requests while others wait for
\* their handler. Node calls one handler at a time, and the handlers of
\* withdraw-request, payment/verify, manual-add and manual-approve are
\* synchronous functions: none of them awaits or registers a callback, so a
\* handler runs from its first statement to res.json before another starts.
\* ------------------------------------------------------------------------
\* the requests posted for Guest: <<route, body>>
RaceRequests ==
  {<<"POST /api/withdraw-request", <<Undef, Str(UpiOk), Str(S1000)>>>>,
   <<"POST /api/payment/verify",
     <<Undef, Str(S1000), Str(Order1), Str(Payment1),
       Signature(Order1, Payment1)>>>>,
   <<"POST /api/manual-add", <<Str(Guest), Coins(10), Str(X1)>>>>,
   <<"POST /api/admin/manual-approve", <<Str(ADMIN_PASSWORD), Coins(0)>>>>}

\* the route handler called with the body
Handle(r) ==
  CASE r[1] = "POST /api/withdraw-request" ->
         WithdrawRequest(r[2][1], r[2][2], r[2][3])
    [] r[1] = "POST /api/payment/verify" ->
         PaymentVerify(r[2][1], r[2][2], r[2][3], r[2][4], r[2][5])
    [] r[1] = "POST /api/manual-add" ->
         ManualAdd(r[2][1], r[2][2], r[2][3])
    [] r[1] = "POST /api/admin/manual-approve" ->
         AdminManualApprove(r[2][1], r[2][2])

\* a request arrives and waits for its handler
Receive(r) ==
  /\ Len(inflight) < MaxInflight
  /\ inflight' = Append(inflight, [req |-> r, pc |-> "received", ok |-> FALSE])
  /\ UNCHANGED <<players, keys, manualPayments, now, resp>>

\* the handler of a waiting request runs and answers
RunToCompletion(slot) ==
  /\ inflight[slot].pc = "received"
  /\ Handle(inflight[slot].req)
  /\ inflight' = [inflight EXCEPT ![slot].pc = "done",
                                  ![slot].ok = resp'.body.success]
  /\ InBounds'

\* a withdraw handler that gave control back between its checks and its
\* debit (an await after line 154): the checks, then, in a later turn, the
\* debit and the push
ServeInterleaved(slot) ==
  LET r == inflight[slot].req
      k == PlayerKey(r[2][1])
      coinsNum == ParseInt(r[2][3])
      p == [balance |-> Debit(players[k].balance, coinsNum),
            withdrawHistory |->
              Append(players[k].withdrawHistory,
                     [coins |-> coinsNum,
                      amountInRupees |-> ToFixed2Hundredth(coinsNum),
                      upiId |-> r[2][2],
                      status |-> Str(Pending),
                      txnId |-> Str(<<>>),
                      note |-> Str(<<>>),
                      time |-> now])]
  IN  IF r[1] # "POST /api/withdraw-request" THEN RunToCompletion(slot)
      ELSE \/ /\ inflight[slot].pc = "received"
              /\ InsufficientBalance(coinsNum, Returned(r[2][1]).balance)
              /\ RunToCompletion(slot)
           \/ /\ inflight[slot].pc = "received"
              /\ ~InsufficientBalance(coinsNum, Returned(r[2][1]).balance)
              /\ players' = getPlayer(r[2][1])
              /\ keys' = getPlayerKeys(r[2][1])
              /\ inflight' = [inflight EXCEPT ![slot].pc = "checked"]
              /\ UNCHANGED <<manualPayments, now, resp>>
           \/ /\ inflight[slot].pc = "checked"
              /\ players' = [players EXCEPT ![k] = p]
              /\ resp' = Reply(r[1], 200,
                               [success |-> TRUE, newBalance |-> p.balance,
                                history |-> p.withdrawHistory])
              /\ inflight' = [inflight EXCEPT ![slot].pc = "done",
                                              ![slot].ok = TRUE]
              /\ UNCHANGED <<keys, manualPayments, now>>
              /\ InBounds'

\* the event loop calls the handler of a waiting request; the handler runs to
\* its response
Serve(slot) == RunToCompletion(slot)

NextRace ==
  \/ \E r \in RaceRequests : Receive(r)
  \/ \E slot \in DOMAIN inflight : Serve(slot)

\* a request received is handled in the end
SpecRace ==
  /\ Init
  /\ [][NextRace]_vars
  /\ WF_vars(\E slot \in DOMAIN inflight : Serve(slot))

\* ------------------------------------------------------------------------
\* The withdrawals over time: the clock advances, Guest withdraws, is paid
\* 1000 coins more or loses the balance and withdraws again, Bob withdraws,
\* the administrator lists the withdrawals and approves Guest's first
\* ------------------------------------------------------------------------
NextList ==
  \/ Tick /\ now' <= MaxTime /\ InBounds'
  \/ \E player \in {Undef, Str(Bob)} :
       WithdrawRequest(player, Str(UpiOk), Str(S1000)) /\ Direct
  \/ PaymentVerify(Undef, Str(S1000), Str(Order1), Str(Payment1),
                   Signature(Order1, Payment1))
     /\ Direct
  \/ AdminWithdrawals(Str(ADMIN_PASSWORD)) /\ Direct
  \/ AdminWithdrawalsUpdate(Str(ADMIN_PASSWORD), Str(Guest), Coins(0),
                            Str(Approved), Str(T1), Str(N1))
     /\ Direct
  \/ WalletSetBalance(Undef, Coins(0)) /\ Direct
  \/ WithdrawHistory(Undef) /\ Direct

SpecList == Init /\ [][NextList]_vars

\* ------------------------------------------------------------------------
\* The ledger: runs without set-balance. Guest and Bob buy coins, with valid
\* and invalid proofs, claim manual payments of 0.125 and "abc" rupees, the
\* administrator approves, Guest withdraws; the requests handled stay on
\* record in inflight
\* ------------------------------------------------------------------------
LedgerRequests ==
  {<<"POST /api/withdraw-request", <<Undef, Str(UpiOk), Str(S1000)>>>>,
   <<"POST /api/payment/verify",
     <<Undef, Str(S500), Str(Order1), Str(Payment1),
       Signature(Order1, Payment1)>>>>,
   <<"POST /api/payment/verify",
     <<Undef, Str(S1000), Str(Order1), Str(Payment1),
       Signature(Order1, Payment2)>>>>,
   <<"POST /api/payment/verify",
     <<Str(Bob), Str(S1000), Str(Order1), Str(Payment1),
       Signature(Order1, Payment1)>>>>,
   <<"POST /api/manual-add", <<Str(Guest), Num(1), Str(X1)>>>>,
   <<"POST /api/manual-add", <<Str(Bob), Str(SAbc), Str(X1)>>>>,
   <<"POST /api/admin/manual-approve", <<Str(ADMIN_PASSWORD), Coins(0)>>>>,
   <<"POST /api/admin/manual-approve", <<Str(ADMIN_PASSWORD), Coins(1)>>>>}

NextLedger ==
  \/ \E r \in LedgerRequests : Receive(r)
  \/ \E slot \in DOMAIN inflight : Serve(slot)

SpecLedger == Init /\ [][NextLedger]_vars

\* ------------------------------------------------------------------------
\* Validation of the admin update: Guest withdraws and refills, the
\* administrator posts updates with every kind of player, index and status
\* ------------------------------------------------------------------------
ValidatePlayers == GuestIds \cup {Str(Bob), Str(Constructor)}
ValidateIndexes ==
  {Undef, Str(<<"0">>), Coins(0), Coins(1), Num(Scale \div 2), Coins(0 - 1)}
ValidateStatuses == {Undef, Str(Approved), Str(Rejected), Str(Done)}

\* the bodies posted: <<player, index, status, txnId, note>>
ValidateRequests ==
  {<<player, index, status, Str(T1), Undef>> :
     player \in ValidatePlayers, index \in ValidateIndexes,
     status \in ValidateStatuses}

NextValidate ==
  \/ WithdrawRequest(Undef, Str(UpiOk), Str(S1000)) /\ Direct
  \/ WalletSetBalance(Undef, Coins(1000)) /\ Direct
  \/ \E r \in ValidateRequests :
       AdminWithdrawalsUpdate(Str(ADMIN_PASSWORD), r[1], r[2], r[3], r[4], r[5])
       /\ Direct

SpecValidate == Init /\ [][NextValidate]_vars

\* ------------------------------------------------------------------------
\* Vocabulary of the properties
\* ------------------------------------------------------------------------
\* the balance and the history an operation finds for a player (a player not
\* seen before has the starting balance and no history)
BalanceOf(player) == getPlayer(player)[PlayerKey(player)].balance
HistoryOf(player) == getPlayer(player)[PlayerKey(player)].withdrawHistory

\* the step leaves every player other than key k as it was
OthersUnchanged(k) ==
  /\ DOMAIN players' \ {k} = DOMAIN players \ {k}
  /\ \A j \in DOMAIN players \ {k} : players'[j] = players[j]

\* the step changes no balance and no history: a player it creates has the
\* starting balance and no history, which is what the player had before
WalletsUnchanged ==
  /\ DOMAIN players \subseteq DOMAIN players'
  /\ \A j \in DOMAIN players' :
       players'[j] = IF j \in DOMAIN players THEN players[j] ELSE NewPlayer

WithdrawRoute == "POST /api/withdraw-request"
Succeeded(r) == r.status = 200 /\ r.body.success

\* the hundredths a decimal string with two fraction digits denotes, -1 when
\* the string has another form
Hundredths(s) ==
  LET k == DigitsEnd(s, 1)
  IN  IF k > 1 /\ Len(s) = k + 2 /\ s[k] = "." /\ DigitsEnd(s, k + 1) = k + 3
      THEN 100 * DigitsValue(s, 1, k) + DigitsValue(s, k + 1, k + 3)
      ELSE 0 - 1

\* ------------------------------------------------------------------------
\* C1: every player's balance is a non-negative integer in every reachable
\* state (the claim as stated; the code credits negative amounts)
\* ------------------------------------------------------------------------
C1_BalancesNonNegativeIntegers ==
  \A k \in DOMAIN players :
    IsInteger(players[k].balance) /\ players[k].balance.v >= 0

\* ------------------------------------------------------------------------
\* C2 as stated: a withdrawal request (to a valid destination) for more coins
\* than the balance B fails with "Insufficient balance", leaves the balance B
\* and appends no record
\* ------------------------------------------------------------------------
C2_OverdrawFailsInsufficient ==
  [][resp'.op = WithdrawRoute =>
       \A player \in WithdrawPlayers, upiId \in WithdrawUpis,
          coins \in WithdrawCoins :
         (/\ Greater(ParseInt(coins), BalanceOf(player))
          /\ IsString(upiId) /\ Includes(upiId.s, "@")
          /\ WithdrawRequest(player, upiId, coins))
         => /\ resp' = Fail(WithdrawRoute, 400, "Insufficient balance")
            /\ BalanceOf(player)' = BalanceOf(player)
            /\ HistoryOf(player)' = HistoryOf(player)]_vars

\* C2 as amended: a withdrawal request for more coins than the balance B
\* fails, leaves the balance B and appends no record; the failure is
\* "Insufficient balance" exactly when the destination is a string with an
\* "@" and the amount is at least 1000; otherwise the destination check or
\* the minimum check fails the request first
C2_OverdrawFails ==
  [][resp'.op = WithdrawRoute =>
       \A player \in WithdrawPlayers, upiId \in WithdrawUpis,
          coins \in WithdrawCoins :
         (/\ Greater(ParseInt(coins), BalanceOf(player))
          /\ WithdrawRequest(player, upiId, coins))
         => /\ ~Succeeded(resp')
            /\ BalanceOf(player)' = BalanceOf(player)
            /\ HistoryOf(player)' = HistoryOf(player)
            /\ WalletsUnchanged
            /\ resp' = Fail(WithdrawRoute, 400, "Insufficient balance")
               <=> /\ IsString(upiId) /\ Includes(upiId.s, "@")
                   /\ ParseInt(coins).v >= MinWithdrawal * Scale
            /\ (IsString(upiId) /\ Includes(upiId.s, "@")
                /\ ParseInt(coins).v < MinWithdrawal * Scale)
               => resp' = Fail(WithdrawRoute, 400,
                               "Minimum withdrawal 1000 coins")]_vars

\* a request for more than the balance was refused as insufficient
C2_Witness ==
  /\ resp = Fail(WithdrawRoute, 400, "Insufficient balance")
  /\ \E k \in DOMAIN players : Len(players[k].withdrawHistory) > 0

\* ------------------------------------------------------------------------
\* C3: with a valid destination, a request for exactly 1000 coins succeeds
\* whenever the balance is at least 1000, and a request for 999 coins fails
\* with "Minimum withdrawal 1000 coins", with no debit and no record,
\* whatever the balance
\* ------------------------------------------------------------------------
C3_MinimumBoundary ==
  [][resp'.op = WithdrawRoute =>
       \A player \in WithdrawPlayers, upiId \in WithdrawUpis,
          coins \in WithdrawCoins :
         (/\ IsString(upiId) /\ Includes(upiId.s, "@")
          /\ ParseInt(coins) \in {Coins(1000), Coins(999)}
          /\ WithdrawRequest(player, upiId, coins))
         => /\ (ParseInt(coins) = Coins(1000)
                /\ ~BalanceOf(player).nan
                /\ BalanceOf(player).v >= 1000 * Scale)
               => /\ Succeeded(resp')
                  /\ Len(HistoryOf(player)') = Len(HistoryOf(player)) + 1
            /\ ParseInt(coins) = Coins(999)
               => /\ resp' = Fail(WithdrawRoute, 400,
                                  "Minimum withdrawal 1000 coins")
                  /\ WalletsUnchanged]_vars

\* a request below the minimum was refused for a player who has withdrawn
\* exactly 1000 coins before
C3_Witness ==
  /\ resp = Fail(WithdrawRoute, 400, "Minimum withdrawal 1000 coins")
  /\ Guest \in DOMAIN players
  /\ \E i \in 1..Len(players[Guest].withdrawHistory) :
       players[Guest].withdrawHistory[i].coins = Coins(1000)

\* ------------------------------------------------------------------------
\* C6: a successful withdrawal request debits exactly the requested coins,
\* appends exactly one record (Pending, the coins, coins/100 with two
\* decimals, the destination, empty txnId and note) at the end of the
\* player's history and leaves every other player as it was
\* ------------------------------------------------------------------------
C6_WithdrawEffect ==
  [][resp'.op = WithdrawRoute /\ Succeeded(resp') =>
       \A player \in WithdrawPlayers, upiId \in WithdrawUpis,
          coins \in WithdrawCoins :
         WithdrawRequest(player, upiId, coins)
         => LET k == PlayerKey(player)
                B == BalanceOf(player)
                n == ParseInt(coins)
                h == players'[k].withdrawHistory
                r == h[Len(h)]
            IN  /\ IsInteger(n)
                /\ players'[k].balance =
                     IF B.nan THEN NaN ELSE Num(B.v - n.v)
                /\ Len(h) = Len(HistoryOf(player)) + 1
                /\ SubSeq(h, 1, Len(h) - 1) = HistoryOf(player)
                /\ r.status = Str(Pending)
                /\ r.coins = n
                /\ Hundredths(r.amountInRupees.s) = Int2(n)
                /\ r.upiId = upiId
                /\ r.txnId = Str(<<>>) /\ r.note = Str(<<>>)
                /\ OthersUnchanged(k)
                /\ manualPayments' = manualPayments
                /\ (k \notin DOMAIN players /\ n = Coins(1000))
                   => /\ players'[k].balance = Coins(0)
                      /\ Len(h) = 1
                      /\ r.amountInRupees = Str(<<"1", "0", ".", "0", "0">>)]_vars

\* a fresh player has withdrawn the whole starting balance
C6_Witness ==
  /\ resp.op = WithdrawRoute /\ Succeeded(resp)
  /\ resp.body.newBalance = Coins(0)
  /\ Len(resp.body.history) = 1
  /\ resp.body.history[1].amountInRupees = Str(<<"1", "0", ".", "0", "0">>)

\* ------------------------------------------------------------------------
\* C9: with a missing or wrong token each admin route answers 403 "Not
\* authorized" and changes nothing; with the admin secret none of them
\* answers 403; the routes without the gate never answer 403
\* ------------------------------------------------------------------------
AdminWithdrawalsRoute == "GET /api/admin/withdrawals"
AdminUpdateRoute == "POST /api/admin/withdrawals/update"
AdminManualPaymentsRoute == "GET /api/admin/manual-payments"
AdminManualApproveRoute == "POST /api/admin/manual-approve"
AdminRoutes ==
  {AdminWithdrawalsRoute, AdminUpdateRoute, AdminManualPaymentsRoute,
   AdminManualApproveRoute}

\* the step answers 403 and changes nothing
Refused(route) ==
  /\ resp' = Fail(route, 403, "Not authorized")
  /\ UNCHANGED <<players, keys, manualPayments, now>>

\* the answer token gets: 403 and no change unless it is the admin secret
Gate(token, route) ==
  IF token = Str(ADMIN_PASSWORD) THEN resp'.status # 403 ELSE Refused(route)

C9_AdminGate ==
  [][/\ resp'.op \in AdminRoutes =>
          \A token \in Tokens \cup {Str(<<>>)} :
            /\ AdminWithdrawals(token) => Gate(token, AdminWithdrawalsRoute)
            /\ AdminManualPayments(token)
               => Gate(token, AdminManualPaymentsRoute)
            /\ \A index \in AdminIndexes :
                 /\ AdminManualApprove(token, index)
                    => Gate(token, AdminManualApproveRoute)
                 /\ AdminWithdrawalsUpdate(token, Str(Guest), index,
                                           Str(Approved), Str(T1), Undef)
                    => Gate(token, AdminUpdateRoute)
     /\ resp'.op \notin AdminRoutes => resp'.status # 403]_vars

\* an approval was refused while a manual claim and a withdrawal were pending
C9_Witness ==
  /\ resp = Fail(AdminManualApproveRoute, 403, "Not authorized")
  /\ \E i \in 1..Len(manualPayments) : manualPayments[i].status = Str(Pending)
  /\ Guest \in DOMAIN players
  /\ \E i \in 1..Len(players[Guest].withdrawHistory) :
       players[Guest].withdrawHistory[i].status = Str(Pending)

\* ------------------------------------------------------------------------
\* C4: approving a claim that is already Approved fails with "Invalid
\* request" and changes no balance and no claim; an Approved claim stays
\* Approved; and every balance is the starting balance plus the coins of the
\* player's Approved claims, each counted once
\* ------------------------------------------------------------------------
\* the coins of a claim: round(100 * amount), halves up, NaN for NaN
CoinsOfClaim(amount) ==
  IF amount.nan THEN NaN
  ELSE Num(Scale * ((100 * amount.v + (Scale \div 2)) \div Scale))

\* a + b, NaN as soon as one of them is
Sum(a, b) == IF a.nan \/ b.nan THEN NaN ELSE Num(a.v + b.v)

\* the coins of the first n claims that are Approved and belong to key k
RECURSIVE ApprovedCoins(_, _)
ApprovedCoins(k, n) ==
  IF n = 0 THEN Num(0)
  ELSE IF /\ manualPayments[n].status = Str(Approved)
          /\ PlayerKey(manualPayments[n].player) = k
       THEN Sum(ApprovedCoins(k, n - 1), CoinsOfClaim(manualPayments[n].amount))
       ELSE ApprovedCoins(k, n - 1)

EachClaimCreditedOnce ==
  \A k \in DOMAIN players :
    players[k].balance =
      Sum(Coins(StartingCoins), ApprovedCoins(k, Len(manualPayments)))

C4_ApproveOnce ==
  /\ []EachClaimCreditedOnce
  /\ [][/\ \A i \in 1..Len(manualPayments) :
             manualPayments[i].status = Str(Approved)
             => /\ i <= Len(manualPayments')
                /\ manualPayments'[i].status = Str(Approved)
        /\ resp'.op = AdminManualApproveRoute =>
             \A index \in ManualIndexes :
               (/\ HasIndex(manualPayments, index)
                /\ manualPayments[Pos(index)].status = Str(Approved)
                /\ AdminManualApprove(Str(ADMIN_PASSWORD), index))
               => /\ resp' = Fail(AdminManualApproveRoute, 400,
                                  "Invalid request")
                  /\ UNCHANGED <<players, manualPayments>>]_vars

\* an approval was refused when every claim of the list was Approved already
C4_Witness ==
  /\ resp = Fail(AdminManualApproveRoute, 400, "Invalid request")
  /\ Len(manualPayments) = 2
  /\ \A i \in 1..2 : manualPayments[i].status = Str(Approved)

\* ------------------------------------------------------------------------
\* C7 as stated: a successful approval of a Pending claim of amount a for
\* player P adds exactly 100 * a coins to P's balance, sets the claim to
\* Approved and changes no other balance and no other claim
\* ------------------------------------------------------------------------
ApprovalEffect(index, coins) ==
  LET i == Pos(index)
      k == PlayerKey(manualPayments[i].player)
  IN  /\ manualPayments[i].status = Str(Pending)
      /\ players'[k].balance = Sum(BalanceOf(manualPayments[i].player), coins)
      /\ players'[k].withdrawHistory = HistoryOf(manualPayments[i].player)
      /\ OthersUnchanged(k)
      /\ manualPayments' =
           [manualPayments EXCEPT ![i].status = Str(Approved)]

\* 100 * a, NaN for NaN
HundredTimes(amount) == IF amount.nan THEN NaN ELSE Num(100 * amount.v)

C7_ApproveAddsHundredTimes ==
  [][resp'.op = AdminManualApproveRoute /\ Succeeded(resp') =>
       \A index \in ManualIndexes :
         AdminManualApprove(Str(ADMIN_PASSWORD), index)
         => ApprovalEffect(index,
                           HundredTimes(manualPayments[Pos(index)].amount))]_vars

\* C7 as amended: the coins added are 100 * a rounded to the nearest integer
\* (halves up; NaN when the stored amount is NaN)
C7_ApproveAddsRounded ==
  [][resp'.op = AdminManualApproveRoute /\ Succeeded(resp') =>
       \A index \in ManualIndexes :
         AdminManualApprove(Str(ADMIN_PASSWORD), index)
         => ApprovalEffect(index,
                           CoinsOfClaim(manualPayments[Pos(index)].amount))]_vars

\* a claim of 0.125 rupees was approved and brought Guest 13 coins, beside an
\* approved claim of 10 rupees that brought Bob 1000
C7_Witness ==
  /\ resp.op = AdminManualApproveRoute /\ Succeeded(resp)
  /\ \E i \in 1..Len(manualPayments) :
       /\ manualPayments[i].status = Str(Approved)
       /\ manualPayments[i].amount = Num(1)
       /\ manualPayments[i].player = Str(Guest)
  /\ \E i \in 1..Len(manualPayments) :
       /\ manualPayments[i].status = Str(Approved)
       /\ manualPayments[i].amount = Coins(10)
       /\ manualPayments[i].player = Str(Bob)
  /\ Guest \in DOMAIN players /\ players[Guest].balance = Coins(1013)
  /\ Bob \in DOMAIN players /\ players[Bob].balance = Coins(2000)

\* ------------------------------------------------------------------------
\* C8: a payment proof with a missing order id, payment id or signature fails
\* with "Missing payment details"; a complete proof whose signature differs
\* from the digest of "orderId|paymentId" under the shared secret fails with
\* "Invalid payment signature"; both failures change no player; and a
\* balance is credited only by a proof whose signature equals that digest
\* ------------------------------------------------------------------------
VerifyRoute == "POST /api/payment/verify"

\* the proof lacks one of its three parts
ProofIncomplete(order_id, payment_id, signature) ==
  \/ order_id \in {Undef, Str(<<>>)}
  \/ payment_id \in {Undef, Str(<<>>)}
  \/ signature \in {Undef, Str(<<>>)}

C8_VerifyNeedsSignature ==
  [][/\ resp'.op = VerifyRoute =>
          \A r \in VerifyRequests :
            LET player == r[1]
                coins == r[2]
                order_id == r[3]
                payment_id == r[4]
                signature == r[5]
            IN
            PaymentVerify(player, coins, order_id, payment_id, signature)
            => IF ProofIncomplete(order_id, payment_id, signature)
               THEN /\ resp' = Fail(VerifyRoute, 400, "Missing payment details")
                    /\ UNCHANGED <<players, keys, manualPayments>>
               ELSE IF signature # Signature(order_id.s, payment_id.s)
               THEN /\ resp' = Fail(VerifyRoute, 400,
                                    "Invalid payment signature")
                    /\ UNCHANGED <<players, keys, manualPayments>>
               ELSE /\ Succeeded(resp')
                    /\ players'[PlayerKey(player)].balance =
                         Sum(BalanceOf(player), Or(ParseInt(coins), Num(0)))
                    /\ OthersUnchanged(PlayerKey(player))
     /\ ~WalletsUnchanged => resp'.op = VerifyRoute /\ Succeeded(resp')]_vars

\* a proof was refused for its signature after Guest had been credited 500
\* coins by a valid one
C8_Witness ==
  /\ resp = Fail(VerifyRoute, 400, "Invalid payment signature")
  /\ Guest \in DOMAIN players
  /\ players[Guest].balance = Coins(1500)

\* ------------------------------------------------------------------------
\* C5 as stated: once the status of a withdrawal record is Approved or
\* Rejected no step changes it, so no record returns to Pending
\* ------------------------------------------------------------------------
C5_TerminalStatuses ==
  [][\A k \in DOMAIN players :
       \A i \in 1..Len(players[k].withdrawHistory) :
         players[k].withdrawHistory[i].status \in {Str(Approved), Str(Rejected)}
         => players'[k].withdrawHistory[i].status =
              players[k].withdrawHistory[i].status]_vars

\* C5 as amended: the status of a record is always Pending, Approved or
\* Rejected; it is Pending at creation; it changes only in a successful
\* admin update, which sets the addressed record to the status supplied,
\* whatever the status was, and leaves the status of every other record
StatusesValid ==
  \A k \in DOMAIN players :
    \A i \in 1..Len(players[k].withdrawHistory) :
      players[k].withdrawHistory[i].status
        \in {Str(Pending), Str(Approved), Str(Rejected)}

\* the record at position i of key k exists before the step
Recorded(k, i) ==
  k \in DOMAIN players /\ i <= Len(players[k].withdrawHistory)

C5_StatusFollowsUpdate ==
  /\ []StatusesValid
  /\ [][/\ \A k \in DOMAIN players' :
             \A i \in 1..Len(players'[k].withdrawHistory) :
               IF Recorded(k, i)
               THEN players'[k].withdrawHistory[i].status
                      # players[k].withdrawHistory[i].status
                    => resp'.op = AdminUpdateRoute /\ Succeeded(resp')
               ELSE players'[k].withdrawHistory[i].status = Str(Pending)
        /\ resp'.op = AdminUpdateRoute /\ Succeeded(resp') =>
             \A player \in {Str(Guest), Str(Bob)}, index \in AdminIndexes,
                update \in StatusUpdates :
               AdminWithdrawalsUpdate(Str(ADMIN_PASSWORD), player, index,
                                      update[1], update[2], Undef)
               => \A k \in DOMAIN players' :
                    \A i \in 1..Len(players'[k].withdrawHistory) :
                      players'[k].withdrawHistory[i].status =
                        IF k = PlayerKey(player) /\ i = Pos(index)
                        THEN update[1]
                        ELSE players[k].withdrawHistory[i].status]_vars

\* an update has put back to Pending a record that had been Approved with a
\* transaction id
C5_Witness ==
  /\ resp.op = AdminUpdateRoute /\ Succeeded(resp)
  /\ \E i \in 1..Len(resp.body.history) :
       /\ resp.body.history[i].status = Str(Pending)
       /\ resp.body.history[i].txnId = Str(T1)

\* ------------------------------------------------------------------------
\* C10: a successful admin update sets the record's status to the one given;
\* a non-empty txnId replaces the stored one and an empty or missing txnId
\* leaves it, and the same for the note; nothing else of the record, no
\* other record and no balance changes; so a txnId or a note that is not
\* empty is never empty again
\* ------------------------------------------------------------------------
\* the value an update stores: the one supplied unless it is empty or missing
Retained(value, stored) ==
  IF value \in {Undef, Str(<<>>)} THEN stored ELSE value

C10_UpdateRetains ==
  [][/\ resp'.op = AdminUpdateRoute /\ Succeeded(resp') =>
          \A r \in UpdateRequests :
            AdminWithdrawalsUpdate(Str(ADMIN_PASSWORD), r[1], r[2], r[3],
                                   r[4], r[5])
            => LET k == PlayerKey(r[1])
                   index == r[2]
                   status == r[3]
                   txnId == r[4]
                   note == r[5]
                   w == players[k].withdrawHistory[Pos(index)]
               IN  /\ players' =
                        [players EXCEPT ![k].withdrawHistory[Pos(index)] =
                           [w EXCEPT !.status = status,
                                     !.txnId = Retained(txnId, w.txnId),
                                     !.note = Retained(note, w.note)]]
                   /\ manualPayments' = manualPayments
     /\ \A k \in DOMAIN players :
          \A i \in 1..Len(players[k].withdrawHistory) :
            /\ players[k].withdrawHistory[i].txnId # Str(<<>>)
               => players'[k].withdrawHistory[i].txnId # Str(<<>>)
            /\ players[k].withdrawHistory[i].note # Str(<<>>)
               => players'[k].withdrawHistory[i].note # Str(<<>>)]_vars

\* an update that supplied no txnId and no note answered with a record that
\* kept the txnId and the note of an earlier update
C10_Witness ==
  /\ resp.op = AdminUpdateRoute /\ Succeeded(resp)
  /\ Len(resp.body.history) = 2
  /\ resp.body.history[1].txnId = Str(T2)
  /\ resp.body.history[1].note = Str(N1)
  /\ resp.body.history[2].txnId = Str(T1)
  /\ resp.body.history[2].note = Str(<<>>)

\* ------------------------------------------------------------------------
\* C11: a step of the admin update, whatever its outcome and the status it
\* sets, leaves every balance as it was (a player the step creates has the
\* starting balance): a rejection gives no coins back, an approval takes none
\* ------------------------------------------------------------------------
C11_UpdateKeepsBalances ==
  [][resp'.op = AdminUpdateRoute =>
       \A k \in DOMAIN players' :
         players'[k].balance =
           IF k \in DOMAIN players THEN players[k].balance
           ELSE Coins(StartingCoins)]_vars

\* Guest has withdrawn the whole balance twice; one record was rejected, the
\* other has just been approved, and the balance is 0
C11_Witness ==
  /\ resp.op = AdminUpdateRoute /\ Succeeded(resp)
  /\ Len(resp.body.history) = 2
  /\ resp.body.history[1].status = Str(Rejected)
  /\ resp.body.history[2].status = Str(Approved)
  /\ Guest \in DOMAIN players
  /\ players[Guest].balance = Coins(0)
  /\ players[Guest].withdrawHistory = resp.body.history

\* ------------------------------------------------------------------------
\* C12: the first reference to an identifier yields a player with balance
\* 1000 and no history, a later reference the record with its state; no
\* record is reset or removed; a missing or empty identifier is "Guest"; the
\* reads of the wallet and of the history change no balance and no history
\* ------------------------------------------------------------------------
WalletRoute == "GET /api/wallet"
HistoryRoute == "GET /api/withdraw-history"

\* the record the step finds under key k: the stored one, a new one at the
\* first reference
Resolved(k) == IF k \in DOMAIN players THEN players[k] ELSE NewPlayer

C12_PlayerResolution ==
  [][/\ DOMAIN players \subseteq DOMAIN players'
     /\ resp'.op = WalletRoute =>
          /\ WalletsUnchanged
          /\ \A player \in ResolveIds :
               WalletGet(player)
               => /\ PlayerKey(player) \in DOMAIN players'
                  /\ resp'.body.balance = Resolved(PlayerKey(player)).balance
          /\ \A player \in GuestIds : WalletGet(player) <=> WalletGet(Str(Guest))
     /\ resp'.op = HistoryRoute =>
          /\ WalletsUnchanged
          /\ \A player \in ResolveIds :
               WithdrawHistory(player)
               => /\ PlayerKey(player) \in DOMAIN players'
                  /\ resp'.body.history =
                       Resolved(PlayerKey(player)).withdrawHistory
          /\ \A player \in GuestIds :
               WithdrawHistory(player) <=> WithdrawHistory(Str(Guest))
     /\ resp'.op = WithdrawRoute =>
          \A player \in GuestIds \cup {Str(Bob)} :
            /\ WithdrawRequest(player, Str(UpiOk), Str(S1000))
               => /\ PlayerKey(player) \in DOMAIN players'
                  /\ Succeeded(resp')
                     <=> ~Less(Resolved(PlayerKey(player)).balance,
                               Coins(MinWithdrawal))
                  /\ Succeeded(resp')
                     => Len(resp'.body.history) =
                          Len(Resolved(PlayerKey(player)).withdrawHistory) + 1
            /\ player \in GuestIds
               => (WithdrawRequest(player, Str(UpiOk), Str(S1000))
                   <=> WithdrawRequest(Str(Guest), Str(UpiOk), Str(S1000)))]_vars

\* ------------------------------------------------------------------------
\* C13: a proof that has been accepted is accepted again: every time the one
\* valid proof is posted the player named in the request is credited the
\* coins named in the request, whoever and whatever the earlier requests
\* named, so n postings with coins c credit n * c
\* ------------------------------------------------------------------------
C13_ReplayCredits ==
  [][resp'.op = VerifyRoute =>
       \A r \in ReplayRequests :
         PaymentVerify(r[1], r[2], Str(Order1), Str(Payment1),
                       Signature(Order1, Payment1))
         => /\ Succeeded(resp')
            /\ players'[PlayerKey(r[1])].balance =
                 Sum(BalanceOf(r[1]), ParseInt(r[2]))
            /\ resp'.body.newBalance = players'[PlayerKey(r[1])].balance
            /\ OthersUnchanged(PlayerKey(r[1]))]_vars

\* the proof has credited Guest 500 coins twice and Bob 1000 coins
C13_Witness ==
  /\ resp.op = VerifyRoute /\ Succeeded(resp)
  /\ Guest \in DOMAIN players /\ players[Guest].balance = Coins(2000)
  /\ Bob \in DOMAIN players /\ players[Bob].balance = Coins(2000)

\* ------------------------------------------------------------------------
\* C14 as stated: requests in flight for one player race on the balance, a
\* run reaches a state where an update is lost or where two withdrawals that
\* together exceed the balance have both succeeded. A run with requests in
\* flight that are all handled in the end would come to such a state.
\* ------------------------------------------------------------------------
ManualAddRoute == "POST /api/manual-add"

\* the requests of the route that have been handled with success
RECURSIVE Handled(_, _)
Handled(route, n) ==
  IF n = 0 THEN 0
  ELSE Handled(route, n - 1)
       + (IF /\ inflight[n].req[1] = route
             /\ inflight[n].pc = "done"
             /\ inflight[n].ok
          THEN 1 ELSE 0)

\* Guest's balance is the starting balance with every credit and every debit
\* of the requests handled (1000 coins each), it is not negative, and the
\* history has one record for each withdrawal that succeeded
NoRace ==
  LET n == Len(inflight)
      credits == Handled(VerifyRoute, n) + Handled(AdminManualApproveRoute, n)
      debits == Handled(WithdrawRoute, n)
  IN  /\ Len(manualPayments) = Handled(ManualAddRoute, n)
      /\ Guest \in DOMAIN players
         => /\ players[Guest].balance =
                 Coins(StartingCoins + 1000 * credits - 1000 * debits)
            /\ players[Guest].balance.v >= 0
            /\ Len(players[Guest].withdrawHistory) = debits
      /\ Guest \notin DOMAIN players => credits = 0 /\ debits = 0

C15_HistoryAppendOnly ==
  [][\A k \in DOMAIN players :
       /\ k \in DOMAIN players'
       /\ LET before == players[k].withdrawHistory
              after == players'[k].withdrawHistory
          IN  /\ Len(after) >= Len(before)
              /\ \A i \in 1..Len(before) :
                   /\ after[i].coins = before[i].coins
                   /\ after[i].amountInRupees = before[i].amountInRupees
                   /\ after[i].upiId = before[i].upiId
                   /\ after[i].time = before[i].time
                   /\ after[i] # before[i] => resp'.op = AdminUpdateRoute
              /\ Len(after) > Len(before)
                 => /\ resp'.op = WithdrawRoute
                    /\ after = Append(before, after[Len(after)])]_vars

\* Guest's second withdrawal has been added behind the first, which is older
\* and had been approved
C15_Witness ==
  /\ resp.op = WithdrawRoute /\ Succeeded(resp)
  /\ Len(resp.body.history) = 2
  /\ resp.body.history[1].status = Str(Approved)
  /\ resp.body.history[1].txnId = Str(T1)
  /\ resp.body.history[1].time < resp.body.history[2].time
  /\ resp.body.history[2].status = Str(Pending)
  /\ players[Guest].withdrawHistory = resp.body.history

\* ------------------------------------------------------------------------
\* C16: the claim list only grows, by one Pending claim at the end in a
\* successful manual-add, which changes no player; a claim keeps its player,
\* amount and txnId; its status is Pending or Approved and changes only from
\* Pending to Approved, in a successful manual-approve
\* ------------------------------------------------------------------------
ClaimStatusesValid ==
  \A i \in 1..Len(manualPayments) :
    manualPayments[i].status \in {Str(Pending), Str(Approved)}

C16_ClaimsAppendOnly ==
  /\ []ClaimStatusesValid
  /\ [][/\ Len(manualPayments') >= Len(manualPayments)
        /\ \A i \in 1..Len(manualPayments) :
             /\ manualPayments'[i].player = manualPayments[i].player
             /\ manualPayments'[i].amount = manualPayments[i].amount
             /\ manualPayments'[i].txnId = manualPayments[i].txnId
             /\ manualPayments'[i].status # manualPayments[i].status
                => /\ manualPayments[i].status = Str(Pending)
                   /\ manualPayments'[i].status = Str(Approved)
                   /\ resp'.op = AdminManualApproveRoute
                   /\ Succeeded(resp')
        /\ Len(manualPayments') > Len(manualPayments)
           => /\ resp'.op = ManualAddRoute /\ Succeeded(resp')
              /\ manualPayments' =
                   Append(manualPayments,
                          manualPayments'[Len(manualPayments')])
              /\ manualPayments'[Len(manualPayments')].status = Str(Pending)
        /\ resp'.op = ManualAddRoute
           => /\ UNCHANGED <<players, keys>>
              /\ Succeeded(resp')
                 => Len(manualPayments') = Len(manualPayments) + 1]_vars

\* a claim has been added behind a claim of Bob's that is Approved
C16_Witness ==
  /\ resp.op = ManualAddRoute /\ Succeeded(resp)
  /\ Len(manualPayments) = 2
  /\ manualPayments[1].status = Str(Approved)
  /\ manualPayments[1].player = Str(Bob)
  /\ manualPayments[2].status = Str(Pending)
  /\ manualPayments[2].player = Str(Guest)
  /\ Bob \in DOMAIN players /\ Guest \notin DOMAIN players

\* ------------------------------------------------------------------------
\* C17: every stored claim has a positive amount, a player and a txnId that
\* are not empty; a manual-add whose amount is not positive or whose player
\* or txnId is missing fails with "All fields required" and adds nothing
\* (the claim as stated; the code stores any truthy amount)
\* ------------------------------------------------------------------------
Positive(x) == IsNumber(x) /\ ~x.nan /\ x.v > 0
Missing(x) == x \in {Undef, Str(<<>>)}

StoredClaimsValid ==
  \A i \in 1..Len(manualPayments) :
    /\ Positive(manualPayments[i].amount)
    /\ ~Missing(manualPayments[i].player)
    /\ ~Missing(manualPayments[i].txnId)

C17_ClaimsValid ==
  /\ []StoredClaimsValid
  /\ [][resp'.op = ManualAddRoute =>
          \A player \in {Undef, Str(Guest), Str(Bob)},
             amount \in ManualAmounts, txnId \in {Undef, Str(X1)} :
            (/\ ManualAdd(player, amount, txnId)
             /\ \/ ~Positive(ToNumber(amount))
                \/ Missing(player)
                \/ Missing(txnId))
            => /\ resp' = Fail(ManualAddRoute, 400, "All fields required")
               /\ manualPayments' = manualPayments]_vars

\* ------------------------------------------------------------------------
\* C18 as stated: without set-balance every balance is 1000, plus the coins
\* of the player's successful payment verifications, plus 100 times the
\* amounts of the player's Approved claims, minus the coins of the records
\* of the player's withdrawal history
\* ------------------------------------------------------------------------
\* the coins the successful verifications among the first n requests have
\* credited to key k
RECURSIVE VerifiedCoins(_, _)
VerifiedCoins(k, n) ==
  IF n = 0 THEN Num(0)
  ELSE IF /\ inflight[n].req[1] = VerifyRoute
          /\ inflight[n].pc = "done"
          /\ inflight[n].ok
          /\ PlayerKey(inflight[n].req[2][1]) = k
       THEN Sum(VerifiedCoins(k, n - 1),
                Or(ParseInt(inflight[n].req[2][2]), Num(0)))
       ELSE VerifiedCoins(k, n - 1)

\* the coins of the first n records of a history
RECURSIVE WithdrawnCoins(_, _)
WithdrawnCoins(history, n) ==
  IF n = 0 THEN Num(0)
  ELSE Sum(WithdrawnCoins(history, n - 1), history[n].coins)

\* 100 times the amounts of the first n claims that are Approved and belong
\* to key k
RECURSIVE ApprovedHundredTimes(_, _)
ApprovedHundredTimes(k, n) ==
  IF n = 0 THEN Num(0)
  ELSE IF /\ manualPayments[n].status = Str(Approved)
          /\ PlayerKey(manualPayments[n].player) = k
       THEN Sum(ApprovedHundredTimes(k, n - 1),
                HundredTimes(manualPayments[n].amount))
       ELSE ApprovedHundredTimes(k, n - 1)

\* credits - debits, NaN as soon as one of them is
Net(credits, debits) ==
  IF credits.nan \/ debits.nan THEN NaN ELSE Num(credits.v - debits.v)

C18_BalanceIsLedgerSum ==
  \A k \in DOMAIN players :
    players[k].balance =
      Net(Sum(Sum(Coins(StartingCoins), VerifiedCoins(k, Len(inflight))),
              ApprovedHundredTimes(k, Len(manualPayments))),
          WithdrawnCoins(players[k].withdrawHistory,
                         Len(players[k].withdrawHistory)))

\* C18 as amended: an Approved claim counts with 100 times its amount rounded
\* to the nearest integer
C18_BalanceIsRoundedLedgerSum ==
  \A k \in DOMAIN players :
    players[k].balance =
      Net(Sum(Sum(Coins(StartingCoins), VerifiedCoins(k, Len(inflight))),
              ApprovedCoins(k, Len(manualPayments))),
          WithdrawnCoins(players[k].withdrawHistory,
                         Len(players[k].withdrawHistory)))

\* Guest's claim of 0.125 rupees was approved and Guest then withdrew 1000
\* coins: 13 are left
C18_Witness ==
  /\ Guest \in DOMAIN players
  /\ players[Guest].balance = Coins(13)
  /\ Len(players[Guest].withdrawHistory) = 1
  /\ Len(manualPayments) = 1
  /\ manualPayments[1].status = Str(Approved)

\* ------------------------------------------------------------------------
\* C19: the list of all withdrawals has exactly one entry for each record of
\* each player, with the player's key, the record's index (the one an admin
\* update addresses it by) and the record's fields; it is ordered by time,
\* the latest first; the listing changes no state
\* ------------------------------------------------------------------------
\* the entry shows the record at its index in the history of its player
ShowsRecord(entry) ==
  /\ entry.player \in DOMAIN players
  /\ HasIndex(players[entry.player].withdrawHistory, Coins(entry.index))
  /\ LET w == players[entry.player].withdrawHistory[Pos(Coins(entry.index))]
     IN  /\ entry.coins = w.coins
         /\ entry.amountInRupees = w.amountInRupees
         /\ entry.upiId = w.upiId
         /\ entry.status = w.status
         /\ entry.txnId = w.txnId
         /\ entry.note = w.note
         /\ entry.time = w.time

C19_ListAll ==
  [][AdminWithdrawals(Str(ADMIN_PASSWORD)) =>
       LET list == resp'.body.withdrawals
       IN  /\ Succeeded(resp')
           /\ UNCHANGED <<players, keys, manualPayments, now>>
           /\ \A j \in 1..Len(list) : ShowsRecord(list[j])
           /\ \A k \in DOMAIN players :
                \A i \in 1..Len(players[k].withdrawHistory) :
                  Cardinality({j \in 1..Len(list) :
                                 /\ list[j].player = k
                                 /\ list[j].index = i - 1}) = 1
           /\ \A a \in 1..Len(list) :
                \A b \in a..Len(list) : list[a].time >= list[b].time]_vars

\* the list shows Guest's second withdrawal, then Bob's, then Guest's first:
\* the order of their times, not the order of the players
C19_Witness ==
  /\ resp.op = AdminWithdrawalsRoute /\ Succeeded(resp)
  /\ Len(resp.body.withdrawals) = 3
  /\ resp.body.withdrawals[1].player = Guest
  /\ resp.body.withdrawals[1].index = 1
  /\ resp.body.withdrawals[2].player = Bob
  /\ resp.body.withdrawals[2].index = 0
  /\ resp.body.withdrawals[3].player = Guest
  /\ resp.body.withdrawals[3].index = 0
  /\ resp.body.withdrawals[3].status = Str(Approved)
  /\ resp.body.withdrawals[1].time > resp.body.withdrawals[2].time
  /\ resp.body.withdrawals[2].time > resp.body.withdrawals[3].time

\* ------------------------------------------------------------------------
\* C20: the admin update fails with InvalidInput (400) when the player is
\* missing or the index is not an integer, with InvalidInput when the status
\* is not Pending, Approved or Rejected, and otherwise with NotFound (404)
\* when the player has no record at the index; a failed update changes no
\* record and no balance (a player it creates has the starting balance and
\* no record)
\* ------------------------------------------------------------------------
InvalidInput(r) == r.status = 400 /\ ~r.body.success
NotFound(r) == r.status = 404 /\ ~r.body.success

\* the player has a record at the index
HasRecord(player, index) ==
  /\ PlayerKey(player) \in DOMAIN players
  /\ HasIndex(players[PlayerKey(player)].withdrawHistory, index)

\* every player is as before, and a new one is as getPlayer makes it
StoreKept ==
  /\ manualPayments' = manualPayments
  /\ \A k \in DOMAIN players : k \in DOMAIN players' /\ players'[k] = players[k]
  /\ \A k \in DOMAIN players' \ DOMAIN players :
       players'[k] = [balance |-> Coins(StartingCoins), withdrawHistory |-> <<>>]

C20_ValidatesBeforeMutating ==
  [][\A r \in ValidateRequests :
       AdminWithdrawalsUpdate(Str(ADMIN_PASSWORD), r[1], r[2], r[3], r[4], r[5])
       => LET player == r[1]
              index == r[2]
              status == r[3]
              wellFormed == Truthy(player) /\ IsInteger(index)
          IN  /\ ~wellFormed => InvalidInput(resp')
              /\ status \notin Statuses => InvalidInput(resp')
              /\ wellFormed /\ status \in Statuses /\ ~HasRecord(player, index)
                 => NotFound(resp')
              /\ ~Succeeded(resp') => StoreKept]_vars

====
